---- MODULE Spec2Model ----
(***************************************************************************)
(* XMLMaintainabilityAnalyzer of src/Evolution_analysis.py (the refactored *)
(* class, lines 773-1043, the definition the module name is bound to).     *)
(* One analyzer instance working on one file.                              *)
(*                                                                         *)
(* Conventions.  A Python str is a sequence of one-character strings.      *)
(* An optional value is a sequence of length 0 (None) or 1 (the value).    *)
(* An element of the parsed tree is a record; its Python truth value is    *)
(* "it has child elements" (xml.etree.ElementTree.Element.__len__).        *)
(***************************************************************************)
EXTENDS Integers, Sequences, FiniteSets, TLC

VARIABLES
    file,               \* the path and what the file system holds there
    pc,                 \* "new" (before __init__), "ready", "raised"
    root,               \* self.root : optional element
    issues,             \* self.issues
    readability_score,  \* self.readability_score
    lastOp,             \* the public operation that ran last
    ret,                \* what it returned
    evals,              \* the rule evaluations it made, in order
    prevScore,          \* self.readability_score when it was entered
    calls,              \* operations run since construction
    totalPenalty,       \* sum of all penalties subtracted so far
    prevIssues,         \* self.issues when the last operation was entered
    low,                \* lowest value self.readability_score held when a
                        \* deduction of the last operation began or the
                        \* operation returned
    reports,            \* calls of generate_report so far
    an,                 \* two analyzers used side by side: for each its
                        \* file, its fields and the operations run on it
    heap,               \* the list objects of the process: the module's
                        \* grade table and the lists self.issues refer to
    fetch               \* a run of fetch_commits_data or fetch_bugs_data:
                        \* position, page, requests sent, records kept

\* the variables of the single analyzer, and those of the two side by side
singleVars == <<file, pc, root, issues, readability_score, lastOp, ret, evals,
                prevScore, calls, totalPenalty, prevIssues, low, reports>>
pairVars == <<an, heap>>

vars == <<file, pc, root, issues, readability_score, lastOp, ret, evals,
          prevScore, calls, totalPenalty, prevIssues, low, reports, an, heap,
          fetch>>

\* ------------------------------------------------------------- bounds
MaxCalls == 3
MaxComponents == 3
LongLen == 6
MaxPageSize == 2

\* --------------------------------------------------- program constants
FILE_NOT_FOUND == 50
XML_PARSE_ERROR == 80
UNKNOWN_LOAD_ERROR == 30
INVALID_VERSION_FORMAT == 10
SDK_SPECIAL_CHARS == 15
DUPLICATE_COMPONENT == 20
PYTHON_VERSION_TOO_LOW == 10
EMPTY_COMPONENT_NAME == 10
INVALID_PYTHON_VERSION_PARSE == 10
NON_XML_FILE == 10
MAX_PAGES == 5
InitialScore == 100
MaxScore == 100

\* MIN_SUPPORTED_PYTHON_VERSION = 3.8, as the fraction num / den
MIN_SUPPORTED_PYTHON_VERSION == [num |-> 38, den |-> 10]

\* MAINTAINABILITY_GRADES; the labels are, in order,
\* "优秀" (excellent), "良好" (good), "一般" (fair), "较差" (poor)
MAINTAINABILITY_GRADES ==
    << <<90, "excellent">>, <<70, "good">>, <<50, "fair">>, <<0, "poor">> >>

\* ------------------------------------------------------------ Python
None == <<>>
Some(x) == <<x>>
IsNone(o) == Len(o) = 0
Val(o) == o[1]

Max(a, b) == IF a >= b THEN a ELSE b
Min(a, b) == IF a <= b THEN a ELSE b

\* str characters and the regex classes \d, \w, \s
DigitChars == {"0", "1", "2", "3", "4", "5", "6", "7", "8", "9"}
LetterChars == {"P", "y", "t", "h", "o", "n", "v", "j", "d", "k", "J", "D", "K"}
SpaceChars == {" ", "\n", "\t"}
IsDigit(c) == c \in DigitChars
IsWord(c) == c \in DigitChars \cup LetterChars \cup {"_"}
IsSpace(c) == c \in SpaceChars

DigitVal(c) ==
    CASE c = "0" -> 0 [] c = "1" -> 1 [] c = "2" -> 2 [] c = "3" -> 3
      [] c = "4" -> 4 [] c = "5" -> 5 [] c = "6" -> 6 [] c = "7" -> 7
      [] c = "8" -> 8 [] c = "9" -> 9

\* length of the longest run of \d starting at s[i]  (greedy \d+)
RECURSIVE DigitRun(_, _)
DigitRun(s, i) ==
    IF i <= Len(s) /\ IsDigit(s[i]) THEN 1 + DigitRun(s, i + 1) ELSE 0

\* "$" without re.MULTILINE: at the end, or just before a final newline
AtDollar(s, i) == i = Len(s) + 1 \/ (i = Len(s) /\ s[i] = "\n")

\* VERSION_PATTERN.match(s) is not None, VERSION_PATTERN = ^\d+(\.\d+)?$
VERSION_PATTERN_match(s) ==
    LET n1 == DigitRun(s, 1) IN
    /\ n1 >= 1
    /\ \/ AtDollar(s, n1 + 1)
       \/ /\ n1 + 1 <= Len(s)
          /\ s[n1 + 1] = "."
          /\ LET n2 == DigitRun(s, n1 + 2) IN
             n2 >= 1 /\ AtDollar(s, n1 + n2 + 2)

\* faulty variant: the class also admits ".", [^\w\s\(\).]
SPECIAL_CHAR_PATTERN_with_dot(s) ==
    \E i \in 1..Len(s) :
        ~(IsWord(s[i]) \/ IsSpace(s[i]) \/ s[i] = "(" \/ s[i] = ")" \/ s[i] = ".")

\* SPECIAL_CHAR_PATTERN.search(s) is not None, the pattern is [^\w\s\(\)]
SPECIAL_CHAR_PATTERN_search(s) ==
    \E i \in 1..Len(s) :
        ~(IsWord(s[i]) \/ IsSpace(s[i]) \/ s[i] = "(" \/ s[i] = ")")

\* lit occurs in s at position i
OccursAt(lit, s, i) ==
    /\ i + Len(lit) - 1 <= Len(s)
    /\ \A j \in 1..Len(lit) : s[i + j - 1] = lit[j]

PythonLit == <<"P", "y", "t", "h", "o", "n">>

\* "Python" in s
ContainsPython(s) == \E i \in 1..Len(s) : OccursAt(PythonLit, s, i)

\* PYTHON_VERSION_PATTERN = Python (\d+\.\d+) matches s at position i
PyVerAt(s, i) ==
    /\ OccursAt(PythonLit \o <<" ">>, s, i)
    /\ LET n1 == DigitRun(s, i + 7) IN
       /\ n1 >= 1
       /\ i + 7 + n1 <= Len(s)
       /\ s[i + 7 + n1] = "."
       /\ DigitRun(s, i + 8 + n1) >= 1

\* PYTHON_VERSION_PATTERN.search(s): group(1) of the leftmost match, or None
PYTHON_VERSION_PATTERN_search(s) ==
    IF \E i \in 1..Len(s) : PyVerAt(s, i)
    THEN LET i  == CHOOSE k \in 1..Len(s) :
                       PyVerAt(s, k) /\ \A m \in 1..(k - 1) : ~PyVerAt(s, m)
             n1 == DigitRun(s, i + 7)
             n2 == DigitRun(s, i + 8 + n1)
         IN  Some(SubSeq(s, i + 7, i + 7 + n1 + n2))
    ELSE None

\* int() of a run of digits
RECURSIVE IntOf(_)
IntOf(ds) ==
    IF Len(ds) = 0 THEN 0
    ELSE 10 * IntOf(SubSeq(ds, 1, Len(ds) - 1)) + DigitVal(ds[Len(ds)])

RECURSIVE Pow10(_)
Pow10(k) == IF k = 0 THEN 1 ELSE 10 * Pow10(k - 1)

\* float(g) of g = digits "." digits : the decimal fraction it denotes,
\* so float("3.10") is 310/100 = 3.1
FloatOf(g) ==
    LET n1 == DigitRun(g, 1)
        fr == SubSeq(g, n1 + 2, Len(g))
    IN  [num |-> IntOf(SubSeq(g, 1, n1)) * Pow10(Len(fr)) + IntOf(fr),
         den |-> Pow10(Len(fr))]

\* a < b on floats given as fractions
FloatLess(a, b) == a.num * b.den < b.num * a.den


\* ------------------------------------------------ the parsed document
\* ET.Element: tag, the attributes the analyzer reads, the child elements.
\* Attribute and tag names are compared for equality only; "version" and
\* "value" are texts the patterns run on.
Option(name, value, kids) ==
    [tag |-> "option", name |-> name, value |-> value, children |-> kids]
Component(name, children) ==
    [tag |-> "component", name |-> name, value |-> None, children |-> children]
OtherElement ==
    [tag |-> "other", name |-> None, value |-> None, children |-> <<>>]
Project(version, children) ==
    [tag |-> "project", version |-> version, children |-> children]

\* bool(element): Element defines __len__ (its number of children) and no
\* __bool__, so an element without children is false
ElementTruth(e) == Len(e.children) # 0

\* "not self.root" / "if jdk_option": None is false, an element is tested
\* by ElementTruth
Falsy(optElem) == IsNone(optElem) \/ ~ElementTruth(Val(optElem))

\* bool(s) of an Optional[str]: None and "" are false
StrTruth(optStr) == ~IsNone(optStr) /\ Len(Val(optStr)) # 0

\* element.findall("component"): the direct children with that tag
FindAllComponents(e) == SelectSeq(e.children, LAMBDA c : c.tag = "component")

\* component.find("option[@name='project-jdk-name']"): the first direct
\* child <option> whose name attribute is project-jdk-name, or None
FindJdkOption(comp) ==
    LET hits == SelectSeq(comp.children,
                    LAMBDA o : o.tag = "option" /\ o.name = Some("project-jdk-name"))
    IN  IF Len(hits) = 0 THEN None ELSE Some(hits[1])

\* faulty variant: the loop keeps the last hit instead of returning the first
RECURSIVE JdkScanLast(_)
JdkScanLast(comps) ==
    IF Len(comps) = 0 THEN None
    ELSE LET c == comps[Len(comps)]
             jdk_option == FindJdkOption(c) IN
         IF c.name = Some("ProjectRootManager") /\ ~Falsy(jdk_option)
         THEN Val(jdk_option).value
         ELSE JdkScanLast(SubSeq(comps, 1, Len(comps) - 1))

\* the loop of _get_project_jdk_value over findall("component")
RECURSIVE JdkScan(_)
JdkScan(comps) ==
    IF Len(comps) = 0 THEN None
    ELSE LET jdk_option == FindJdkOption(Head(comps)) IN
         IF Head(comps).name = Some("ProjectRootManager") /\ ~Falsy(jdk_option)
         THEN Val(jdk_option).value
         ELSE JdkScan(Tail(comps))

_get_project_jdk_value(r) ==
    IF Falsy(r) THEN None ELSE JdkScan(FindAllComponents(Val(r)))

\* ------------------------------------------------------------- issues
\* An issue is its message: the kind of finding and the text put into it.
Issue(kind, arg) == [kind |-> kind, arg |-> arg]

\* what a rule method did: the list it returns, the amount it subtracted
\* from self.readability_score, and whether the path it took ends in
\* _clamp_score() (the early returns do not)
NoIssues == [issues |-> <<>>, deducted |-> 0, clamped |-> FALSE]

\* faulty variant: the issues recorded, the penalties not subtracted
OutcomeUndeducted(iss, ded) == [issues |-> iss, deducted |-> 0, clamped |-> TRUE]
Outcome(iss, ded) == [issues |-> iss, deducted |-> ded, clamped |-> TRUE]

\* faulty variant: the lower bound of the clamp is lost
ClampNoFloor(score) == Min(score, MaxScore)

\* _clamp_score
Clamp(score) == Max(0, Min(score, MaxScore))

\* ---------------------------------------------------- the rule bodies

\* check_config_norm
CheckConfigNorm(r) ==
    IF Falsy(r) THEN NoIssues
    ELSE LET project_version == Val(r).version
             bad_version == StrTruth(project_version)
                            /\ ~VERSION_PATTERN_match(Val(project_version))
             jdk_val == _get_project_jdk_value(r)
             bad_sdk == StrTruth(jdk_val)
                        /\ SPECIAL_CHAR_PATTERN_search(Val(jdk_val))
         IN  Outcome(
                 (IF bad_version
                  THEN <<Issue("invalid_version_format", Val(project_version))>>
                  ELSE <<>>)
                 \o (IF bad_sdk
                     THEN <<Issue("sdk_special_chars", Val(jdk_val))>>
                     ELSE <<>>),
                 (IF bad_version THEN INVALID_VERSION_FORMAT ELSE 0)
                 + (IF bad_sdk THEN SDK_SPECIAL_CHARS ELSE 0))

\* faulty variant: a new name is not added to component_names
RECURSIVE DuplicateScanNoAppend(_, _)
DuplicateScanNoAppend(comps, component_names) ==
    IF Len(comps) = 0 THEN Outcome(<<>>, 0)
    ELSE LET comp_name == Head(comps).name IN
         IF IsNone(comp_name) \/ Val(comp_name) = ""
         THEN LET rest == DuplicateScanNoAppend(Tail(comps), component_names) IN
              Outcome(<<Issue("empty_component_name", <<>>)>> \o rest.issues,
                      EMPTY_COMPONENT_NAME + rest.deducted)
         ELSE IF \E i \in 1..Len(component_names) :
                     component_names[i] = Val(comp_name)
         THEN LET rest == DuplicateScanNoAppend(Tail(comps), component_names) IN
              Outcome(<<Issue("duplicate_component", <<Val(comp_name)>>)>>
                          \o rest.issues,
                      DUPLICATE_COMPONENT + rest.deducted)
         ELSE DuplicateScanNoAppend(Tail(comps), component_names)

\* faulty variant: no test for a missing name; an entry without a name is
\* tracked under the name ""
RECURSIVE DuplicateScanUnnamedTracked(_, _)
DuplicateScanUnnamedTracked(comps, component_names) ==
    IF Len(comps) = 0 THEN Outcome(<<>>, 0)
    ELSE LET comp_name == IF IsNone(Head(comps).name) THEN ""
                          ELSE Val(Head(comps).name) IN
         IF \E i \in 1..Len(component_names) : component_names[i] = comp_name
         THEN LET rest == DuplicateScanUnnamedTracked(Tail(comps), component_names) IN
              Outcome(<<Issue("duplicate_component", <<comp_name>>)>>
                          \o rest.issues,
                      DUPLICATE_COMPONENT + rest.deducted)
         ELSE DuplicateScanUnnamedTracked(Tail(comps),
                                          Append(component_names, comp_name))

\* the loop of detect_duplicate_config; component_names is the list of the
\* names seen so far
RECURSIVE DuplicateScan(_, _)
DuplicateScan(comps, component_names) ==
    IF Len(comps) = 0 THEN Outcome(<<>>, 0)
    ELSE LET comp_name == Head(comps).name IN
         IF IsNone(comp_name) \/ Val(comp_name) = ""
         THEN LET rest == DuplicateScan(Tail(comps), component_names) IN
              Outcome(<<Issue("empty_component_name", <<>>)>> \o rest.issues,
                      EMPTY_COMPONENT_NAME + rest.deducted)
         ELSE IF \E i \in 1..Len(component_names) :
                     component_names[i] = Val(comp_name)
         THEN LET rest == DuplicateScan(Tail(comps), component_names) IN
              Outcome(<<Issue("duplicate_component", <<Val(comp_name)>>)>>
                          \o rest.issues,
                      DUPLICATE_COMPONENT + rest.deducted)
         ELSE DuplicateScan(Tail(comps), Append(component_names, Val(comp_name)))

\* faulty variant: the "if not self.root" guard lets an unset root through, and
\* the scan reports it as an entry without a name
DetectDuplicateConfigUnguarded(r) ==
    IF IsNone(r)
    THEN Outcome(<<Issue("empty_component_name", <<>>)>>, EMPTY_COMPONENT_NAME)
    ELSE DuplicateScan(FindAllComponents(Val(r)), <<>>)

\* detect_duplicate_config
DetectDuplicateConfig(r) ==
    IF Falsy(r) THEN NoIssues
    ELSE DuplicateScan(FindAllComponents(Val(r)), <<>>)

\* check_version_compatibility.  float() of a \d+\.\d+ match never raises
\* ValueError, so the except branch has no input that reaches it.
CheckVersionCompatibility(r) ==
    LET jdk_val == _get_project_jdk_value(r) IN
    IF ~StrTruth(jdk_val) \/ ~ContainsPython(Val(jdk_val)) THEN NoIssues
    ELSE LET version_match == PYTHON_VERSION_PATTERN_search(Val(jdk_val)) IN
         IF IsNone(version_match)
         THEN Outcome(<<Issue("invalid_python_version_parse", Val(jdk_val))>>,
                      INVALID_PYTHON_VERSION_PARSE)
         ELSE IF FloatLess(FloatOf(Val(version_match)), MIN_SUPPORTED_PYTHON_VERSION)
         THEN Outcome(<<Issue("python_version_too_low", Val(version_match))>>,
                      PYTHON_VERSION_TOO_LOW)
         ELSE Outcome(<<>>, 0)

\* faulty variant: the thresholds compared with > instead of >=
RECURSIVE GradeScanStrict(_, _)
GradeScanStrict(score, grades) ==
    IF Len(grades) = 0 THEN "poor"
    ELSE IF score > Head(grades)[1] THEN Head(grades)[2]
    ELSE GradeScanStrict(score, Tail(grades))

\* get_maintainability_grade: the first threshold the score reaches
RECURSIVE GradeScan(_, _)
GradeScan(score, grades) ==
    IF Len(grades) = 0 THEN "poor"
    ELSE IF score >= Head(grades)[1] THEN Head(grades)[2]
    ELSE GradeScan(score, Tail(grades))

GetMaintainabilityGrade(score) == GradeScan(Clamp(score), MAINTAINABILITY_GRADES)


\* faulty variant: the penalty added instead of subtracted
AfterAdding(score, res) ==
    IF res.clamped THEN Clamp(score + res.deducted) ELSE score + res.deducted

\* faulty variant: the rule method returns without _clamp_score()
AfterUnclamped(score, res) == score - res.deducted

\* ScoreDeduction: the penalty subtracted where an issue of this kind is
\* recorded
PenaltyOf(kind) ==
    CASE kind = "file_not_found" -> FILE_NOT_FOUND
      [] kind = "xml_parse_error" -> XML_PARSE_ERROR
      [] kind \in {"permission_error", "unknown_load_error"} -> UNKNOWN_LOAD_ERROR
      [] kind = "non_xml_file" -> NON_XML_FILE
      [] kind = "invalid_version_format" -> INVALID_VERSION_FORMAT
      [] kind = "sdk_special_chars" -> SDK_SPECIAL_CHARS
      [] kind = "empty_component_name" -> EMPTY_COMPONENT_NAME
      [] kind = "duplicate_component" -> DUPLICATE_COMPONENT
      [] kind = "invalid_python_version_parse" -> INVALID_PYTHON_VERSION_PARSE
      [] kind = "python_version_too_low" -> PYTHON_VERSION_TOO_LOW

\* self.readability_score after a rule method that was entered with score
After(score, res) ==
    IF res.clamped THEN Clamp(score - res.deducted) ELSE score - res.deducted

\* lowest value self.readability_score holds when a deduction of a rule
\* method begins or the method returns: the deductions before the last one
\* are not followed by _clamp_score()
LowOf(score, res) ==
    IF Len(res.issues) = 0 THEN score
    ELSE Min(After(score, res),
             score - res.deducted + PenaltyOf(res.issues[Len(res.issues)].kind))

\* ------------------------------------------------------------ load_xml
\* faulty variant: the suffix comparison inverted
NonXmlSuffixInverted(f) == f.xml_suffix

\* faulty variant: the suffix never compared
NonXmlSuffixNever(f) == FALSE

\* self.file_path.suffix.lower() != ".xml"
NonXmlSuffix(f) == ~f.xml_suffix

\* faulty variant: the suffix check made before the existence check, so that a
\* missing file with another suffix gets the warning too
LoadXmlSuffixFirst(f, r, score) ==
    LET warn == NonXmlSuffix(f)
        s1   == IF warn THEN Clamp(score - NON_XML_FILE) ELSE score
        w    == IF warn THEN <<Issue("non_xml_file", <<>>)>> ELSE <<>>
        d1   == IF warn THEN NON_XML_FILE ELSE 0
    IN  IF f.outcome = "ok"
        THEN [raised |-> FALSE, root |-> Some(f.doc), issues |-> w,
              score |-> Clamp(s1), deducted |-> d1]
        ELSE IF f.outcome \in {"missing", "stat_denied"}
        THEN [raised |-> FALSE, root |-> r,
              issues |-> w \o <<Issue("file_not_found", <<>>)>>,
              score |-> Clamp(s1 - FILE_NOT_FOUND), deducted |-> d1 + FILE_NOT_FOUND]
        ELSE [raised |-> FALSE, root |-> r,
              issues |-> w \o <<Issue("unknown_load_error", <<>>)>>,
              score |-> Clamp(s1 - UNKNOWN_LOAD_ERROR),
              deducted |-> d1 + UNKNOWN_LOAD_ERROR]

\* What load_xml does for file f on an analyzer whose root is r and whose
\* score is score.  f.outcome is what the file system answers:
\*   "ok"           the file exists and ET.parse returns a tree
\*   "missing"      file_path.exists() is False
\*   "parse_error"  ET.parse raises ET.ParseError
\*   "permission"   ET.parse raises PermissionError (open() is refused)
\*   "other"        ET.parse raises any other exception
\*   "stat_denied"  stat() of the path fails with EACCES (a directory on
\*                  the way is not searchable): Path.exists() re-raises it
\*                  where pathlib ignores only ENOENT, ENOTDIR, EBADF and
\*                  ELOOP (f.exists_raises), and answers False elsewhere
LoadXml(f, r, score) ==
    IF f.outcome = "stat_denied" /\ f.exists_raises
    THEN [raised |-> TRUE, root |-> r, issues |-> <<>>,
          score |-> score, deducted |-> 0]
    ELSE IF f.outcome \in {"missing", "stat_denied"}
    THEN [raised |-> FALSE, root |-> r,
          issues |-> <<Issue("file_not_found", <<>>)>>,
          score |-> Clamp(score - FILE_NOT_FOUND), deducted |-> FILE_NOT_FOUND]
    ELSE LET warn == NonXmlSuffix(f)
             s1   == IF warn THEN Clamp(score - NON_XML_FILE) ELSE score
             w    == IF warn THEN <<Issue("non_xml_file", <<>>)>> ELSE <<>>
             d1   == IF warn THEN NON_XML_FILE ELSE 0
         IN  CASE f.outcome = "ok" ->
                    [raised |-> FALSE, root |-> Some(f.doc), issues |-> w,
                     score |-> Clamp(s1), deducted |-> d1]
               [] f.outcome = "parse_error" ->
                    [raised |-> FALSE, root |-> r,
                     issues |-> w \o <<Issue("xml_parse_error", <<>>)>>,
                     score |-> Clamp(s1 - XML_PARSE_ERROR),
                     deducted |-> d1 + XML_PARSE_ERROR]
               [] f.outcome = "permission" ->
                    [raised |-> FALSE, root |-> r,
                     issues |-> w \o <<Issue("permission_error", <<>>)>>,
                     score |-> Clamp(s1 - UNKNOWN_LOAD_ERROR),
                     deducted |-> d1 + UNKNOWN_LOAD_ERROR]
               [] f.outcome = "other" ->
                    [raised |-> FALSE, root |-> r,
                     issues |-> w \o <<Issue("unknown_load_error", <<>>)>>,
                     score |-> Clamp(s1 - UNKNOWN_LOAD_ERROR),
                     deducted |-> d1 + UNKNOWN_LOAD_ERROR]


\* ------------------------------------- the first definition of the class
\* (superseded by the second one when the module is loaded)

\* "self.readability_score = max(0, self.readability_score)"
OldClamp(score) == Max(0, score)

\* load_xml of the first definition: the suffix check comes first, then
\* ET.parse inside the try; a path that cannot be reached raises from
\* ET.parse and is caught by "except Exception"
OldLoadXml(f) ==
    LET w  == IF ~f.xml_suffix THEN <<Issue("non_xml_file", <<>>)>> ELSE <<>>
        s1 == IF ~f.xml_suffix THEN InitialScore - NON_XML_FILE ELSE InitialScore
    IN  CASE f.outcome = "ok" ->
                [root |-> Some(f.doc), issues |-> w, score |-> OldClamp(s1)]
          [] f.outcome = "missing" ->
                [root |-> None,
                 issues |-> w \o <<Issue("file_not_found", <<>>)>>,
                 score |-> OldClamp(s1 - FILE_NOT_FOUND)]
          [] f.outcome = "parse_error" ->
                [root |-> None,
                 issues |-> w \o <<Issue("xml_parse_error", <<>>)>>,
                 score |-> OldClamp(s1 - XML_PARSE_ERROR)]
          [] f.outcome \in {"permission", "other", "stat_denied"} ->
                [root |-> None,
                 issues |-> w \o <<Issue("unknown_load_error", <<>>)>>,
                 score |-> OldClamp(s1 - UNKNOWN_LOAD_ERROR)]

\* the SDK loop of the first check_config_norm: every ProjectRootManager
\* component whose option is accepted is examined
RECURSIVE OldSdkNameScan(_)
OldSdkNameScan(comps) ==
    IF Len(comps) = 0 THEN Outcome(<<>>, 0)
    ELSE LET jdk_option == FindJdkOption(Head(comps))
             rest == OldSdkNameScan(Tail(comps))
         IN  IF /\ Head(comps).name = Some("ProjectRootManager")
                /\ ~Falsy(jdk_option)
                /\ StrTruth(Val(jdk_option).value)
                /\ SPECIAL_CHAR_PATTERN_search(Val(Val(jdk_option).value))
             THEN Outcome(<<Issue("sdk_special_chars", Val(Val(jdk_option).value))>>
                              \o rest.issues,
                          SDK_SPECIAL_CHARS + rest.deducted)
             ELSE rest

\* check_config_norm of the first definition
OldCheckConfigNorm(r) ==
    IF Falsy(r) THEN NoIssues
    ELSE LET project_version == Val(r).version
             bad_version == StrTruth(project_version)
                            /\ ~VERSION_PATTERN_match(Val(project_version))
             sdk == OldSdkNameScan(FindAllComponents(Val(r)))
         IN  Outcome(
                 (IF bad_version
                  THEN <<Issue("invalid_version_format", Val(project_version))>>
                  ELSE <<>>) \o sdk.issues,
                 (IF bad_version THEN INVALID_VERSION_FORMAT ELSE 0) + sdk.deducted)

\* detect_duplicate_config of the first definition: the same loop
OldDetectDuplicateConfig(r) ==
    IF Falsy(r) THEN NoIssues
    ELSE DuplicateScan(FindAllComponents(Val(r)), <<>>)

\* the loop of the first check_version_compatibility: every accepted option
\* is examined; a value without an extractable version is passed over
RECURSIVE OldVersionScan(_)
OldVersionScan(comps) ==
    IF Len(comps) = 0 THEN Outcome(<<>>, 0)
    ELSE LET jdk_option == FindJdkOption(Head(comps))
             rest == OldVersionScan(Tail(comps))
             jdk_val == Val(jdk_option).value
             version_match == PYTHON_VERSION_PATTERN_search(Val(jdk_val))
         IN  IF /\ Head(comps).name = Some("ProjectRootManager")
                /\ ~Falsy(jdk_option)
                /\ StrTruth(jdk_val)
                /\ ContainsPython(Val(jdk_val))
                /\ ~IsNone(version_match)
                /\ FloatLess(FloatOf(Val(version_match)), MIN_SUPPORTED_PYTHON_VERSION)
             THEN Outcome(<<Issue("python_version_too_low", Val(version_match))>>
                              \o rest.issues,
                          PYTHON_VERSION_TOO_LOW + rest.deducted)
             ELSE rest

\* faulty variant: the first definition given the lookup and the
\* unparseable-version branch of the second
OldCheckVersionCompatibilityWithParseIssue(r) == CheckVersionCompatibility(r)

\* check_version_compatibility of the first definition
OldCheckVersionCompatibility(r) ==
    IF Falsy(r) THEN NoIssues
    ELSE OldVersionScan(FindAllComponents(Val(r)))

\* get_maintainability_grade of the first definition
OldGetMaintainabilityGrade(score) ==
    LET sc == Max(0, Min(score, MaxScore)) IN
    IF sc >= 90 THEN "excellent"
    ELSE IF sc >= 70 THEN "good"
    ELSE IF sc >= 50 THEN "fair"
    ELSE "poor"

\* the first definition constructed on f, then generate_report once: the
\* issue list, the score and the grade of the report
OldReport(f) ==
    LET l      == OldLoadXml(f)
        norm   == OldCheckConfigNorm(l.root)
        s1     == OldClamp(l.score - norm.deducted)
        dup    == OldDetectDuplicateConfig(l.root)
        s2     == OldClamp(s1 - dup.deducted)
        compat == OldCheckVersionCompatibility(l.root)
        s3     == OldClamp(s2 - compat.deducted)
    IN  [issues |-> l.issues \o norm.issues \o dup.issues \o compat.issues,
         score  |-> Max(0, Min(s3, MaxScore)),
         grade  |-> OldGetMaintainabilityGrade(s3)]

\* ------------------------------------------------------ the input files
Py(rest) == PythonLit \o rest

\* texts of the root's version attribute ("" is version="", the last one is
\* version="3.8&#10;"), or no such attribute
Versions ==
    { None, Some(<<>>), Some(<<"4">>), Some(<<"3", ".", "8">>),
      Some(<<"3", ".", "8", ".", "1">>), Some(<<"v", "3">>),
      Some(<<"3", ".", "8", "\n">>) }

\* texts of the project-jdk-name option's value attribute
JdkTexts ==
    { Py(<<" ", "3", ".", "6">>), Py(<<" ", "3", ".", "8">>),
      Py(<<" ", "3", ".", "1", "0">>), Py(<<" ", "3", ".", "9">>),
      Py(<<" ", "3">>), Py(<<"3", ".", "9">>), Py(<<" ", "(", "3", ")">>),
      <<"j", "d", "k">>, <<"j", "d", "k", "-", "1">> }

JdkOption(value, kids) == Option(Some("project-jdk-name"), value, kids)
RootManager(options) == Component(Some("ProjectRootManager"), options)

\* child lists of the root that exercise the SDK lookup: the option written
\* as an attribute-only element (<option name=.. value=../>) or with a child
\* element, without a value, absent, behind another option, in a second
\* ProjectRootManager; a root with no component; a root with no child
SdkChildren ==
    { <<RootManager(<<JdkOption(Some(v), kids)>>)>> :
          v \in JdkTexts, kids \in {<<>>, <<OtherElement>>} }
    \cup
    { <<>>,
      <<OtherElement>>,
      <<RootManager(<<>>)>>,
      <<RootManager(<<JdkOption(None, <<OtherElement>>)>>)>>,
      <<RootManager(<<Option(Some("languageLevel"), None, <<>>),
                      JdkOption(Some(Py(<<" ", "3", ".", "6">>)), <<OtherElement>>)>>)>>,
      <<RootManager(<<JdkOption(Some(Py(<<" ", "3", ".", "6">>)), <<>>)>>),
        RootManager(<<JdkOption(Some(Py(<<" ", "3", ".", "1", "0">>)), <<OtherElement>>)>>)>>,
      <<RootManager(<<JdkOption(Some(Py(<<" ", "3", ".", "6">>)), <<OtherElement>>)>>),
        RootManager(<<JdkOption(Some(Py(<<" ", "3">>)), <<OtherElement>>)>>),
        RootManager(<<>>)>>,
      <<RootManager(<<JdkOption(Some(Py(<<" ", "3", ".", "6">>)), <<OtherElement>>)>>),
        RootManager(<<JdkOption(Some(Py(<<" ", "3", ".", "6">>)), <<OtherElement>>)>>)>> }

\* the name attribute of a <component>: absent, empty, or a name
ComponentNames == {None, Some(""), Some("A"), Some("B")}

RECURSIVE SeqsUpTo(_, _)
SeqsUpTo(S, n) ==
    IF n = 0 THEN {<<>>}
    ELSE LET shorter == SeqsUpTo(S, n - 1) IN
         shorter \cup {Append(q, x) : q \in shorter, x \in S}

\* child lists of the root that exercise the duplicate scan: every list of
\* at most MaxComponents components with these names
NamedChildren ==
    SeqsUpTo({Component(n, <<>>) : n \in ComponentNames}, MaxComponents)

\* a document whose duplicates alone cost the whole score: LongLen
\* components of one name
LongDoc == Project(None, [i \in 1..LongLen |-> Component(Some("A"), <<>>)])

Docs ==
    {Project(v, ch) : v \in Versions, ch \in SdkChildren}
    \cup {Project(None, ch) : ch \in NamedChildren}
    \cup {LongDoc}

EmptyDoc == Project(None, <<>>)

File(sfx, outcome, raises, doc) ==
    [xml_suffix |-> sfx, outcome |-> outcome, exists_raises |-> raises, doc |-> doc]

Files ==
    {File(sfx, "ok", FALSE, d) : sfx \in BOOLEAN, d \in Docs}
    \cup {File(sfx, o, FALSE, EmptyDoc) :
              sfx \in BOOLEAN, o \in {"missing", "parse_error", "permission", "other"}}
    \cup {File(sfx, "stat_denied", b, EmptyDoc) : sfx \in BOOLEAN, b \in BOOLEAN}

\* ------------------------------------------------------------- actions
Ret(kind, iss, score, grade, sentinel) ==
    [kind |-> kind, issues |-> iss, score |-> score, grade |-> grade,
     sentinel |-> sentinel]
NoRet == Ret("none", <<>>, 0, "", FALSE)

Eval(rule, res) == [rule |-> rule, issues |-> res.issues]

\* ------------------------------------------------------ the fetchers
\* no fetch function has been called
NotFetching ==
    [fn |-> "none", pc |-> "idle", page |-> 0, requests |-> <<>>,
     commits |-> <<>>, log |-> <<>>]

\* ------------------------------------------- two analyzers side by side
Instances == 1..2

\* the list objects: address 0 is MAINTAINABILITY_GRADES, the others are
\* handed out by the constructor
GradesAddress == 0
Addresses == {GradesAddress} \cup Instances

\* faulty variant: one list object for all instances (a class attribute)
NewIssuesListShared(i) == 1

\* self.issues = []: a list object of the instance's own
NewIssuesList(i) == i

\* an analyzer not constructed yet (ref is not read before __init__ set it)
NoAnalyzer(f) ==
    [pc |-> "new", file |-> f, root |-> None, ref |-> GradesAddress,
     score |-> InitialScore, ops |-> <<>>]

EmptyHeap ==
    [a \in Addresses |-> IF a = GradesAddress THEN MAINTAINABILITY_GRADES ELSE <<>>]

\* the files given to the two analyzers
PairFiles ==
    { File(FALSE, "ok", FALSE,
           Project(Some(<<"v", "3">>),
                   <<Component(Some("A"), <<>>), Component(Some("A"), <<>>)>>)),
      File(TRUE, "ok", FALSE,
           Project(None,
                   <<RootManager(<<JdkOption(Some(Py(<<" ", "3", ".", "6">>)),
                                             <<OtherElement>>)>>)>>)),
      File(FALSE, "parse_error", FALSE, EmptyDoc),
      File(TRUE, "missing", FALSE, EmptyDoc) }

Idle ==
    /\ fetch = NotFetching
    /\ an = [i \in Instances |-> NoAnalyzer(File(TRUE, "missing", FALSE, EmptyDoc))]
    /\ heap = EmptyHeap

Init ==
    /\ Idle
    /\ file \in Files
    /\ pc = "new"
    /\ root = None
    /\ issues = <<>>
    /\ readability_score = InitialScore
    /\ lastOp = "none"
    /\ ret = NoRet
    /\ evals = <<>>
    /\ prevScore = InitialScore
    /\ calls = 0
    /\ totalPenalty = 0
    /\ prevIssues = <<>>
    /\ low = InitialScore
    /\ reports = 0

\* faulty variant: __init__ returns without calling load_xml
ConstructWithoutLoad ==
    /\ pc = "new"
    /\ pc' = "ready"
    /\ lastOp' = "__init__"
    /\ ret' = NoRet
    /\ evals' = <<>>
    /\ UNCHANGED <<file, root, issues, readability_score, totalPenalty, low,
                   prevScore, prevIssues, calls, reports, an, heap, fetch>>

\* faulty variant: __init__ calls load_xml twice
ConstructLoadTwice ==
    /\ pc = "new"
    /\ LET l1 == LoadXml(file, None, InitialScore)
           l2 == LoadXml(file, l1.root, l1.score) IN
       /\ pc' = IF l1.raised THEN "raised" ELSE "ready"
       /\ root' = l2.root
       /\ issues' = l1.issues \o l2.issues
       /\ readability_score' = l2.score
       /\ totalPenalty' = l1.deducted + l2.deducted
       /\ low' = l2.score
    /\ lastOp' = "__init__"
    /\ ret' = NoRet
    /\ evals' = <<>>
    /\ prevScore' = InitialScore
    /\ prevIssues' = <<>>
    /\ UNCHANGED <<file, calls, reports, an, heap, fetch>>

\* XMLMaintainabilityAnalyzer(file_path): __init__ sets the fields and
\* calls load_xml
Construct ==
    /\ pc = "new"
    /\ LET l == LoadXml(file, None, InitialScore) IN
       /\ pc' = IF l.raised THEN "raised" ELSE "ready"
       /\ root' = l.root
       /\ issues' = l.issues
       /\ readability_score' = l.score
       /\ totalPenalty' = l.deducted
       /\ low' = l.score
    /\ lastOp' = "__init__"
    /\ ret' = NoRet
    /\ evals' = <<>>
    /\ prevScore' = InitialScore
    /\ prevIssues' = <<>>
    /\ UNCHANGED <<file, calls, reports, an, heap, fetch>>

\* a public method is called on the constructed analyzer
Called(op) ==
    /\ pc = "ready"
    /\ calls < MaxCalls
    /\ calls' = calls + 1
    /\ lastOp' = op
    /\ prevScore' = readability_score
    /\ prevIssues' = issues
    /\ reports' = IF op = "generate_report" THEN reports + 1 ELSE reports
    /\ UNCHANGED <<file, an, heap, fetch>>

\* load_xml() called again
load_xml ==
    /\ Called("load_xml")
    /\ LET l == LoadXml(file, root, readability_score) IN
       /\ pc' = IF l.raised THEN "raised" ELSE "ready"
       /\ root' = l.root
       /\ issues' = issues \o l.issues
       /\ readability_score' = l.score
       /\ totalPenalty' = totalPenalty + l.deducted
       /\ low' = l.score
    /\ ret' = NoRet
    /\ evals' = <<>>

\* faulty variant: the rule method also appends its issues to self.issues
RuleCalledAppending(op, res) ==
    /\ Called(op)
    /\ readability_score' = After(readability_score, res)
    /\ low' = LowOf(readability_score, res)
    /\ totalPenalty' = totalPenalty + res.deducted
    /\ ret' = Ret("issues", res.issues, 0, "", FALSE)
    /\ evals' = <<Eval(op, res)>>
    /\ issues' = issues \o res.issues
    /\ UNCHANGED <<pc, root>>

\* a rule method called on its own: it returns its issues and does not
\* touch self.issues
RuleCalled(op, res) ==
    /\ Called(op)
    /\ readability_score' = After(readability_score, res)
    /\ low' = LowOf(readability_score, res)
    /\ totalPenalty' = totalPenalty + res.deducted
    /\ ret' = Ret("issues", res.issues, 0, "", FALSE)
    /\ evals' = <<Eval(op, res)>>
    /\ UNCHANGED <<pc, root, issues>>

check_config_norm == RuleCalled("check_config_norm", CheckConfigNorm(root))

detect_duplicate_config ==
    RuleCalled("detect_duplicate_config", DetectDuplicateConfig(root))

check_version_compatibility ==
    RuleCalled("check_version_compatibility", CheckVersionCompatibility(root))

calculate_maintainability_score ==
    /\ Called("calculate_maintainability_score")
    /\ readability_score' = Clamp(readability_score)
    /\ ret' = Ret("score", <<>>, Clamp(readability_score), "", FALSE)
    /\ evals' = <<>>
    /\ low' = readability_score
    /\ UNCHANGED <<pc, root, issues, totalPenalty>>

get_maintainability_grade ==
    /\ Called("get_maintainability_grade")
    /\ readability_score' = Clamp(readability_score)
    /\ ret' = Ret("grade", <<>>, 0, GetMaintainabilityGrade(readability_score), FALSE)
    /\ evals' = <<>>
    /\ low' = readability_score
    /\ UNCHANGED <<pc, root, issues, totalPenalty>>

\* faulty variant: the duplicate scan evaluated before check_config_norm
generate_report_reordered ==
    /\ Called("generate_report")
    /\ LET dup    == DetectDuplicateConfig(root)
           s1     == After(readability_score, dup)
           norm   == CheckConfigNorm(root)
           s2     == After(s1, norm)
           compat == CheckVersionCompatibility(root)
           s3     == After(s2, compat)
           all    == issues \o dup.issues \o norm.issues \o compat.issues
       IN  /\ issues' = all
           /\ readability_score' = Clamp(s3)
           /\ low' = Min(LowOf(readability_score, dup),
                         Min(LowOf(s1, norm), LowOf(s2, compat)))
           /\ totalPenalty' = totalPenalty + norm.deducted + dup.deducted
                                           + compat.deducted
           /\ ret' = Ret("report", all, Clamp(s3), GetMaintainabilityGrade(s3),
                         Len(all) = 0)
           /\ evals' = <<Eval("detect_duplicate_config", dup),
                         Eval("check_config_norm", norm),
                         Eval("check_version_compatibility", compat)>>
    /\ UNCHANGED <<pc, root>>

\* faulty variant: self.issues assigned the new issues instead of extended
generate_report_replacing ==
    /\ Called("generate_report")
    /\ LET norm   == CheckConfigNorm(root)
           s1     == After(readability_score, norm)
           dup    == DetectDuplicateConfig(root)
           s2     == After(s1, dup)
           compat == CheckVersionCompatibility(root)
           s3     == After(s2, compat)
           all    == norm.issues \o dup.issues \o compat.issues
       IN  /\ issues' = all
           /\ readability_score' = Clamp(s3)
           /\ low' = Min(LowOf(readability_score, norm),
                         Min(LowOf(s1, dup), LowOf(s2, compat)))
           /\ totalPenalty' = totalPenalty + norm.deducted + dup.deducted
                                           + compat.deducted
           /\ ret' = Ret("report", all, Clamp(s3), GetMaintainabilityGrade(s3),
                         Len(all) = 0)
           /\ evals' = <<Eval("check_config_norm", norm),
                         Eval("detect_duplicate_config", dup),
                         Eval("check_version_compatibility", compat)>>
    /\ UNCHANGED <<pc, root>>

\* faulty variant: the score and the grade of the report read before the
\* rules are evaluated
generate_report_stale ==
    /\ Called("generate_report")
    /\ LET norm   == CheckConfigNorm(root)
           s1     == After(readability_score, norm)
           dup    == DetectDuplicateConfig(root)
           s2     == After(s1, dup)
           compat == CheckVersionCompatibility(root)
           s3     == After(s2, compat)
           all    == issues \o norm.issues \o dup.issues \o compat.issues
       IN  /\ issues' = all
           /\ readability_score' = Clamp(s3)
           /\ low' = Min(LowOf(readability_score, norm),
                         Min(LowOf(s1, dup), LowOf(s2, compat)))
           /\ totalPenalty' = totalPenalty + norm.deducted + dup.deducted
                                           + compat.deducted
           /\ ret' = Ret("report", all, Clamp(readability_score),
                         GetMaintainabilityGrade(readability_score),
                         Len(all) = 0)
           /\ evals' = <<Eval("check_config_norm", norm),
                         Eval("detect_duplicate_config", dup),
                         Eval("check_version_compatibility", compat)>>
    /\ UNCHANGED <<pc, root>>

\* generate_report: the three rule methods in the order of the list
\* display, self.issues extended by what they returned, then the report
\* built from calculate_maintainability_score(), get_maintainability_grade()
\* and self.issues
generate_report ==
    /\ Called("generate_report")
    /\ LET norm   == CheckConfigNorm(root)
           s1     == After(readability_score, norm)
           dup    == DetectDuplicateConfig(root)
           s2     == After(s1, dup)
           compat == CheckVersionCompatibility(root)
           s3     == After(s2, compat)
           all    == issues \o norm.issues \o dup.issues \o compat.issues
       IN  /\ issues' = all
           /\ readability_score' = Clamp(s3)
           /\ low' = Min(LowOf(readability_score, norm),
                         Min(LowOf(s1, dup), LowOf(s2, compat)))
           /\ totalPenalty' = totalPenalty + norm.deducted + dup.deducted
                                           + compat.deducted
           /\ ret' = Ret("report", all, Clamp(s3), GetMaintainabilityGrade(s3),
                         Len(all) = 0)
           /\ evals' = <<Eval("check_config_norm", norm),
                         Eval("detect_duplicate_config", dup),
                         Eval("check_version_compatibility", compat)>>
    /\ UNCHANGED <<pc, root>>

Next ==
    \/ Construct
    \/ load_xml
    \/ check_config_norm
    \/ detect_duplicate_config
    \/ check_version_compatibility
    \/ calculate_maintainability_score
    \/ get_maintainability_grade
    \/ generate_report

Spec == Init /\ [][Next]_vars


\* get_maintainability_grade as a function of the score: every score of
\* 0..MaxScore as the analyzer's score, then the two read-only methods
InitGrade ==
    /\ Idle
    /\ file = File(TRUE, "ok", FALSE, EmptyDoc)
    /\ pc = "ready"
    /\ root = Some(EmptyDoc)
    /\ issues = <<>>
    /\ readability_score \in 0..MaxScore
    /\ lastOp = "__init__"
    /\ ret = NoRet
    /\ evals = <<>>
    /\ prevScore = InitialScore
    /\ calls = 0
    /\ totalPenalty = 0
    /\ prevIssues = <<>>
    /\ low = InitialScore
    /\ reports = 0

NextGrade ==
    \/ get_maintainability_grade
    \/ calculate_maintainability_score

SpecGrade == InitGrade /\ [][NextGrade]_vars

\* two analyzers constructed and used by one caller in any interleaving
MaxPairOps == 2

\* what an operation makes of an analyzer's fields (document, content of
\* the list self.issues refers to, score) for the file f
Fields(r, iss, score) == [root |-> r, issues |-> iss, score |-> score]

Step(st, f, op) ==
    CASE op = "__init__" ->
            LET l == LoadXml(f, None, InitialScore)
            IN  Fields(l.root, l.issues, l.score)
      [] op = "load_xml" ->
            LET l == LoadXml(f, st.root, st.score)
            IN  Fields(l.root, st.issues \o l.issues, l.score)
      [] op = "detect_duplicate_config" ->
            Fields(st.root, st.issues,
                   After(st.score, DetectDuplicateConfig(st.root)))
      [] op = "generate_report" ->
            LET norm   == CheckConfigNorm(st.root)
                s1     == After(st.score, norm)
                dup    == DetectDuplicateConfig(st.root)
                s2     == After(s1, dup)
                compat == CheckVersionCompatibility(st.root)
                s3     == After(s2, compat)
            IN  Fields(st.root,
                       st.issues \o norm.issues \o dup.issues \o compat.issues,
                       Clamp(s3))

\* operation op on analyzer i: it reads and writes the instance's fields
\* and the list object self.issues refers to
Do(i, op) ==
    LET ref == IF op = "__init__" THEN NewIssuesList(i) ELSE an[i].ref
        cur == Fields(an[i].root,
                      IF op = "__init__" THEN <<>> ELSE heap[ref],
                      an[i].score)
        new == Step(cur, an[i].file, op)
    IN  /\ an' = [an EXCEPT ![i] =
                     [pc |-> "ready", file |-> @.file, root |-> new.root,
                      ref |-> ref, score |-> new.score,
                      ops |-> Append(@.ops, op)]]
        /\ heap' = [heap EXCEPT ![ref] = new.issues]
        /\ UNCHANGED <<singleVars, fetch>>

PairConstruct(i) == an[i].pc = "new" /\ Do(i, "__init__")

PairCalled(i, op) ==
    an[i].pc = "ready" /\ Len(an[i].ops) <= MaxPairOps /\ Do(i, op)

PairLoadXml(i) == PairCalled(i, "load_xml")
PairDetectDuplicateConfig(i) == PairCalled(i, "detect_duplicate_config")
PairGenerateReport(i) == PairCalled(i, "generate_report")

InitPair ==
    /\ fetch = NotFetching
    /\ an \in [Instances -> {NoAnalyzer(f) : f \in PairFiles}]
    /\ heap = EmptyHeap
    /\ file = File(TRUE, "missing", FALSE, EmptyDoc)
    /\ pc = "new"
    /\ root = None
    /\ issues = <<>>
    /\ readability_score = InitialScore
    /\ lastOp = "none"
    /\ ret = NoRet
    /\ evals = <<>>
    /\ prevScore = InitialScore
    /\ calls = 0
    /\ totalPenalty = 0
    /\ prevIssues = <<>>
    /\ low = InitialScore
    /\ reports = 0

NextPair ==
    \E i \in Instances :
        \/ PairConstruct(i)
        \/ PairLoadXml(i)
        \/ PairDetectDuplicateConfig(i)
        \/ PairGenerateReport(i)

SpecPair == InitPair /\ [][NextPair]_vars

\* ----------------------------- fetch_commits_data and fetch_bugs_data
\* Both functions run the same loop; fetch.fn says which one runs and
\* fetch.commits is its list (commits or bugs).  A record is the page it
\* came on and its position there.
PageRecords(page, n) == [i \in 1..n |-> <<page, i>>]

\* what became of one request: the outcome, the number of records of the
\* page, and how many of them were appended
Fetched(outcome, size, kept) == [outcome |-> outcome, size |-> size, kept |-> kept]

\* fetch_commits_data() / fetch_bugs_data() is called
FetchStart(fn) ==
    /\ fetch.pc = "idle"
    /\ fetch' = [fn |-> fn, pc |-> "loop", page |-> 1, requests |-> <<>>,
                 commits |-> <<>>, log |-> <<>>]
    /\ UNCHANGED <<singleVars, pairVars>>

\* the next item of range(1, MAX_PAGES + 1), or the end of the loop
LoopOn(f) ==
    IF f.page = MAX_PAGES THEN [f EXCEPT !.pc = "done"]
    ELSE [f EXCEPT !.page = @ + 1]

\* session.get for the current page is sent
Requested(outcome, size, kept) ==
    [fetch EXCEPT !.requests = Append(@, fetch.page),
                  !.log = Append(@, Fetched(outcome, size, kept)),
                  !.commits = @ \o PageRecords(fetch.page, kept)]

\* the page arrives with n records, all of them are appended
PageData(n) ==
    /\ fetch.pc = "loop"
    /\ fetch' = LoopOn(Requested("data", n, n))
    /\ UNCHANGED <<singleVars, pairVars>>

\* the page arrives empty: "if not page_data: break"
PageEmpty ==
    /\ fetch.pc = "loop"
    /\ fetch' = [Requested("empty", 0, 0) EXCEPT !.pc = "done"]
    /\ UNCHANGED <<singleVars, pairVars>>

\* session.get, raise_for_status or resp.json raises: except, break
RequestFailed ==
    /\ fetch.pc = "loop"
    /\ fetch' = [Requested("failed", 0, 0) EXCEPT !.pc = "done"]
    /\ UNCHANGED <<singleVars, pairVars>>

\* the page arrives with n records and the k-th raises while its fields
\* are read (inside the same try): the records before it stay, break
RecordRaises(n, k) ==
    /\ fetch.pc = "loop"
    /\ fetch' = [Requested("bad_record", n, k - 1) EXCEPT !.pc = "done"]
    /\ UNCHANGED <<singleVars, pairVars>>

\* the server accepts the request and never answers: session.get is called
\* without timeout (the attribute set by create_session is not read by
\* requests), so the call does not return
NoResponse ==
    /\ fetch.pc = "loop"
    /\ fetch' = [Requested("no_response", 0, 0) EXCEPT !.pc = "blocked"]
    /\ UNCHANGED <<singleVars, pairVars>>

InitFetch ==
    /\ fetch = NotFetching
    /\ an = [i \in Instances |-> NoAnalyzer(File(TRUE, "missing", FALSE, EmptyDoc))]
    /\ heap = EmptyHeap
    /\ file = File(TRUE, "missing", FALSE, EmptyDoc)
    /\ pc = "new"
    /\ root = None
    /\ issues = <<>>
    /\ readability_score = InitialScore
    /\ lastOp = "none"
    /\ ret = NoRet
    /\ evals = <<>>
    /\ prevScore = InitialScore
    /\ calls = 0
    /\ totalPenalty = 0
    /\ prevIssues = <<>>
    /\ low = InitialScore
    /\ reports = 0

NextFetch ==
    \/ \E fn \in {"fetch_commits_data", "fetch_bugs_data"} : FetchStart(fn)
    \/ \E n \in 1..MaxPageSize : PageData(n)
    \/ PageEmpty
    \/ RequestFailed
    \/ \E n \in 1..MaxPageSize : \E k \in 1..n : RecordRaises(n, k)
    \/ NoResponse

SpecFetch == InitFetch /\ [][NextFetch]_vars

\* ====================================================================
\* Properties
\* ====================================================================
RuleOps ==
    {"check_config_norm", "detect_duplicate_config", "check_version_compatibility"}

\* number of entries of the list iss that satisfy Test
Count(iss, Test(_)) == Len(SelectSeq(iss, Test))

\* construction followed by exactly one generate_report
OneReport == pc = "ready" /\ calls = 1 /\ lastOp = "generate_report"

\* no rule evaluation of the last operation recorded an issue
NoRuleIssue == \A i \in 1..Len(evals) : evals[i].issues = <<>>

\* C1: after every operation the score is an integer of 0..100, so is the
\* value calculate_maintainability_score returns, and once the penalties
\* subtracted so far sum to more than 100 the score is exactly 0.
C1_ScoreWithinBounds ==
    /\ readability_score \in 0..100
    /\ (ret.kind = "score" => ret.score \in 0..100)
    /\ (ret.kind = "report" => ret.score \in 0..100)
    /\ (totalPenalty > 100 => readability_score = 0)

\* C1 witness: penalties beyond 100 have been subtracted and the score is 0
C1_Witness ==
    pc = "ready" /\ calls > 0 /\ totalPenalty > 100 /\ readability_score = 0

\* C2: get_maintainability_grade returns, for the score s the analyzer
\* holds, the top label iff s >= 90, the second iff 70 <= s < 90, the third
\* iff 50 <= s < 70 and the fourth iff s < 50: one label for every score.
C2_GradeBoundaries ==
    lastOp = "get_maintainability_grade" =>
        /\ ret.grade \in {"excellent", "good", "fair", "poor"}
        /\ (ret.grade = "excellent") <=> (prevScore >= 90)
        /\ (ret.grade = "good") <=> (prevScore >= 70 /\ prevScore <= 89)
        /\ (ret.grade = "fair") <=> (prevScore >= 50 /\ prevScore <= 69)
        /\ (ret.grade = "poor") <=> (prevScore >= 0 /\ prevScore <= 49)

\* C2 witness: the grade of the boundary score 90 has been asked for
C2_Witness ==
    lastOp = "get_maintainability_grade" /\ prevScore = 90
        /\ ret.grade = "excellent"

\* C3 as claimed: a file that parses and on which no rule records an issue
\* ends construction plus one generate_report with score 100 and the top
\* grade.
C3_Original ==
    (OneReport /\ file.outcome = "ok" /\ NoRuleIssue) =>
        (ret.score = 100 /\ ret.grade = "excellent")

\* C3 amended: a file that parses and on which no rule records an issue
\* ends construction plus one generate_report with the top grade, and with
\* score 100 when its suffix is .xml and 90 (the suffix warning) otherwise.
C3_CleanFileScore ==
    (OneReport /\ file.outcome = "ok" /\ NoRuleIssue) =>
        /\ ret.grade = "excellent"
        /\ readability_score = ret.score
        /\ ret.score = IF file.xml_suffix THEN 100 ELSE 90
        /\ (file.xml_suffix => ret.sentinel)

\* C3 witness: a .xml file with components and an SDK option that the rules
\* evaluated without finding anything
C3_Witness ==
    /\ OneReport /\ file.outcome = "ok" /\ NoRuleIssue /\ file.xml_suffix
    /\ ~Falsy(root)
    /\ StrTruth(Val(root).version)
    /\ StrTruth(_get_project_jdk_value(root))
    /\ ret.score = 100

\* C4: for a path that does not exist, whatever its suffix, construction
\* plus one generate_report gives score 100 - 50, an issue list holding the
\* file-not-found issue and nothing else, and no issue from any rule.
C4_MissingFile ==
    (OneReport /\ file.outcome = "missing") =>
        /\ ret.score = InitialScore - FILE_NOT_FOUND
        /\ readability_score = InitialScore - FILE_NOT_FOUND
        /\ issues = <<Issue("file_not_found", <<>>)>>
        /\ ret.issues = issues
        /\ Len(evals) = 3
        /\ NoRuleIssue

\* C4 witness: the report of a missing file whose suffix is not .xml
C4_Witness ==
    OneReport /\ file.outcome = "missing" /\ ~file.xml_suffix /\ IsNone(root)


\* the components of the loaded root, and those that carry a name
Comps == FindAllComponents(Val(root))
Named(c) == ~IsNone(c.name) /\ Val(c.name) # ""

\* positions of the components whose name occurred at an earlier position
LaterOccurrences ==
    {i \in 1..Len(Comps) :
        Named(Comps[i]) /\ \E j \in 1..(i - 1) : Comps[j].name = Comps[i].name}

\* the p-th of them in document order
NthLater(p) ==
    CHOOSE i \in LaterOccurrences :
        Cardinality({j \in LaterOccurrences : j < i}) = p - 1

IsDuplicateIssue(x) == x.kind = "duplicate_component"

\* C5 for the issues iss of one evaluation of detect_duplicate_config: a
\* name occurring k >= 1 times has k - 1 duplicate issues, and the duplicate
\* issues are the later occurrences in document order
DuplicatesAsClaimed(iss) ==
    LET D == SelectSeq(iss, IsDuplicateIssue) IN
    /\ \A c \in {Comps[i] : i \in 1..Len(Comps)} :
          Named(c) =>
              Count(iss, LAMBDA x : IsDuplicateIssue(x) /\ x.arg = <<Val(c.name)>>)
                  = Count(Comps, LAMBDA d : d.name = c.name) - 1
    /\ Len(D) = Cardinality(LaterOccurrences)
    /\ \A p \in 1..Len(D) : D[p].arg = <<Val(Comps[NthLater(p)].name)>>

\* C5: every evaluation of detect_duplicate_config on a loaded document
\* (called directly or by generate_report) reports, for a name occurring
\* k >= 1 times, exactly k - 1 duplicates, the later occurrences in document
\* order and never the first; a direct call lowers the score by 20 for each
\* of them (and 10 for each entry without a name), clamped at 0.
C5_DuplicateCount ==
    (pc = "ready" /\ ~Falsy(root)) =>
        /\ \A i \in 1..Len(evals) :
              evals[i].rule = "detect_duplicate_config" =>
                  DuplicatesAsClaimed(evals[i].issues)
        /\ lastOp = "detect_duplicate_config" =>
              LET dups == Count(ret.issues, IsDuplicateIssue) IN
              readability_score =
                  Max(0, prevScore - DUPLICATE_COMPONENT * dups
                             - EMPTY_COMPONENT_NAME * (Len(ret.issues) - dups))

\* C5 witness: detect_duplicate_config ran on a document in which one name
\* occurs three times, and returned two duplicates of it
C5_Witness ==
    /\ pc = "ready" /\ ~Falsy(root) /\ lastOp = "detect_duplicate_config"
    /\ Count(Comps, LAMBDA d : d.name = Some("A")) = 3
    /\ Count(ret.issues, IsDuplicateIssue) = 2
    /\ readability_score = prevScore - 2 * DUPLICATE_COMPONENT

\* the ProjectRootManager components of the loaded root
RootManagers == SelectSeq(Comps, LAMBDA c : c.name = Some("ProjectRootManager"))

\* the document declares SDK value v in an attribute-only option element of
\* its (first) ProjectRootManager component
DeclaresPlainSdk(v) ==
    /\ ~IsNone(root)
    /\ Len(RootManagers) >= 1
    /\ LET o == FindJdkOption(RootManagers[1]) IN
       ~IsNone(o) /\ Val(o).children = <<>> /\ Val(o).value = Some(v)

\* C6 as claimed: with the SDK value "Python 3.6" declared in an ordinary
\* attribute-only option, check_version_compatibility returns a
\* version-too-low issue and lowers the score by 10.
C6_Claim ==
    (pc = "ready" /\ lastOp = "check_version_compatibility"
        /\ DeclaresPlainSdk(Py(<<" ", "3", ".", "6">>)) /\ Len(RootManagers) = 1) =>
        /\ \E i \in 1..Len(ret.issues) : ret.issues[i].kind = "python_version_too_low"
        /\ readability_score = Max(0, prevScore - PYTHON_VERSION_TOO_LOW)

\* major and minor of a matched "digits.digits" as integers
MajorOf(g) == IntOf(SubSeq(g, 1, DigitRun(g, 1)))
MinorOf(g) == IntOf(SubSeq(g, DigitRun(g, 1) + 2, Len(g)))

\* C7 as claimed: when the version extracted from the SDK value is, as
\* major.minor, at or above 3.8, check_version_compatibility returns no
\* issue and leaves the score alone.
C7_Claim ==
    (pc = "ready" /\ lastOp = "check_version_compatibility"
        /\ StrTruth(_get_project_jdk_value(root))
        /\ ~IsNone(PYTHON_VERSION_PATTERN_search(Val(_get_project_jdk_value(root))))) =>
        LET g == Val(PYTHON_VERSION_PATTERN_search(Val(_get_project_jdk_value(root)))) IN
        (MajorOf(g) > 3 \/ (MajorOf(g) = 3 /\ MinorOf(g) >= 8)) =>
            (ret.issues = <<>> /\ readability_score = prevScore)

\* s is one or more digits, or digits "." digits
DigitsForm(s) ==
    \E n \in 1..Len(s) :
        /\ \A i \in 1..n : IsDigit(s[i])
        /\ \/ n = Len(s)
           \/ /\ n + 2 <= Len(s)
              /\ s[n + 1] = "."
              /\ \A i \in (n + 2)..Len(s) : IsDigit(s[i])

\* C8 as claimed (here only for roots that have child elements): a call of
\* check_config_norm returns exactly one format issue when the version
\* attribute is present and not digits or digits.digits, and none when it
\* has that form or is absent.
C8_Claim ==
    (pc = "ready" /\ lastOp = "check_config_norm" /\ ~Falsy(root)) =>
        LET v == Val(root).version IN
        Count(ret.issues, LAMBDA x : x.kind = "invalid_version_format")
            = IF ~IsNone(v) /\ ~DigitsForm(Val(v)) THEN 1 ELSE 0

\* C9: while the document is unset, a call of check_config_norm,
\* detect_duplicate_config or check_version_compatibility returns an empty
\* list and changes neither the score nor the issue list, whichever call of
\* the run it is.
C9_RulesNoOpWhenUnloaded ==
    [][(pc = "ready" /\ IsNone(root) /\ lastOp' \in RuleOps /\ calls' = calls + 1) =>
          /\ ret'.kind = "issues"
          /\ ret'.issues = <<>>
          /\ readability_score' = readability_score
          /\ issues' = issues
          /\ pc' = "ready"]_vars

\* C9 witness: a rule method has just returned on an analyzer whose load
\* failed, as the third call on it
C9_Witness ==
    /\ pc = "ready" /\ IsNone(root) /\ lastOp \in RuleOps /\ calls = 3
    /\ Len(issues) >= 1

LoadFailureKinds ==
    {"file_not_found", "xml_parse_error", "permission_error", "unknown_load_error"}

\* C10 as claimed: load_xml never lets an exception out; a failed load
\* leaves the document unset, appends exactly one load-failure issue and
\* subtracts its penalty (80 for malformed markup, 30 for a refused or
\* otherwise failed read), and the score is in 0..100 afterwards.
C10_Claim ==
    (lastOp = "__init__") =>
        /\ pc # "raised"
        /\ readability_score \in 0..100
        /\ file.outcome # "ok" =>
              /\ IsNone(root)
              /\ Count(issues, LAMBDA x : x.kind \in LoadFailureKinds) = 1
        /\ file.outcome = "parse_error" =>
              totalPenalty = XML_PARSE_ERROR
                  + (IF file.xml_suffix THEN 0 ELSE NON_XML_FILE)
        /\ file.outcome \in {"permission", "other"} =>
              totalPenalty = UNKNOWN_LOAD_ERROR
                  + (IF file.xml_suffix THEN 0 ELSE NON_XML_FILE)


\* ------------------------------------------------------------ C11..C20
\* the issues returned by the rule evaluations of the last operation,
\* concatenated in evaluation order
RECURSIVE ConcatIssues(_)
ConcatIssues(es) ==
    IF Len(es) = 0 THEN <<>> ELSE Head(es).issues \o ConcatIssues(Tail(es))

IsPrefix(a, b) == Len(a) <= Len(b) /\ SubSeq(b, 1, Len(a)) = a

LoadKinds == LoadFailureKinds \cup {"non_xml_file"}

\* position of the rule that produces an issue kind in the fixed order
\* format -> naming -> duplicates -> compatibility (0: the load step)
RuleRank(kind) ==
    CASE kind = "invalid_version_format" -> 1
      [] kind = "sdk_special_chars" -> 2
      [] kind \in {"empty_component_name", "duplicate_component"} -> 3
      [] kind \in {"invalid_python_version_parse", "python_version_too_low"} -> 4
      [] OTHER -> 0

RECURSIVE SumPenalty(_)
SumPenalty(iss) ==
    IF Len(iss) = 0 THEN 0 ELSE PenaltyOf(Head(iss).kind) + SumPenalty(Tail(iss))

\* C11: a call of generate_report evaluates check_config_norm (format, then
\* naming), detect_duplicate_config and check_version_compatibility once
\* each, in that order; self.issues becomes what it was followed by their
\* issues in that order, and the report lists exactly that list.
C11_RuleOrder ==
    lastOp = "generate_report" =>
        /\ Len(evals) = 3
        /\ evals[1].rule = "check_config_norm"
        /\ evals[2].rule = "detect_duplicate_config"
        /\ evals[3].rule = "check_version_compatibility"
        /\ issues = prevIssues \o ConcatIssues(evals)
        /\ ret.issues = issues
        /\ \A i, j \in (Len(prevIssues) + 1)..Len(issues) :
              i < j => RuleRank(issues[i].kind) <= RuleRank(issues[j].kind)
        /\ \A i \in (Len(prevIssues) + 1)..Len(issues) :
              RuleRank(issues[i].kind) >= 1

\* C11 witness: a report after a load issue, in which each of the four rules
\* recorded something
C11_Witness ==
    /\ OneReport
    /\ Len(prevIssues) >= 1
    /\ \A k \in 1..4 :
          \E i \in (Len(prevIssues) + 1)..Len(issues) : RuleRank(issues[i].kind) = k

\* C12: after construction and two calls of generate_report the issue list
\* is the load issues once followed by the rule issues twice, and the score
\* is max(0, 100 - load penalties - 2 * rule penalties).
C12_TwoReports ==
    (pc = "ready" /\ calls = 2 /\ reports = 2) =>
        LET R == ConcatIssues(evals)
            L == SubSeq(prevIssues, 1, Len(prevIssues) - Len(R))
        IN  /\ Len(prevIssues) >= Len(R)
            /\ prevIssues = L \o R
            /\ issues = L \o R \o R
            /\ \A i \in 1..Len(L) : L[i].kind \in LoadKinds
            /\ \A i \in 1..Len(R) : R[i].kind \notin LoadKinds
            /\ readability_score
                   = Max(0, InitialScore - SumPenalty(L) - 2 * SumPenalty(R))

\* C12 witness: two reports on a file with a load issue and rule issues,
\* the score still above 0
C12_Witness ==
    /\ pc = "ready" /\ calls = 2 /\ reports = 2
    /\ Len(ConcatIssues(evals)) >= 2
    /\ Len(issues) = 1 + 2 * Len(ConcatIssues(evals))
    /\ readability_score > 0

\* C14 as claimed: the list an operation leaves has the list it found as a
\* prefix, and the issues of every rule evaluation it made are appended.
C14_Original ==
    /\ IsPrefix(prevIssues, issues)
    /\ Len(evals) > 0 => issues = prevIssues \o ConcatIssues(evals)

\* C14 amended: the list an operation leaves has the list it found as a
\* prefix; generate_report appends the issues of its rule evaluations; a
\* rule method called directly returns its issues and leaves the list as it
\* was, although it lowers the score.
C14_AppendOnly ==
    /\ IsPrefix(prevIssues, issues)
    /\ lastOp = "generate_report" => issues = prevIssues \o ConcatIssues(evals)
    /\ lastOp \in RuleOps =>
          /\ issues = prevIssues
          /\ ret.issues = ConcatIssues(evals)
          /\ readability_score = Max(0, prevScore - SumPenalty(ret.issues))

\* C14 witness: a rule method called directly returned issues and lowered
\* the score, and the list, not empty, kept its content
C14_Witness ==
    /\ lastOp \in RuleOps /\ Len(ret.issues) >= 1 /\ Len(issues) >= 1
    /\ readability_score < prevScore /\ reports = 1

\* C15: the score is 100 before construction and no operation leaves it
\* higher than it found it.
C15_ScoreNonIncreasing ==
    /\ pc = "new" => readability_score = 100
    /\ readability_score <= prevScore
    /\ prevScore <= 100

\* C15 witness: a rule evaluation lowered a score already lowered by the
\* load step
C15_Witness ==
    /\ lastOp = "detect_duplicate_config"
    /\ readability_score < prevScore /\ prevScore < 100


\* the load step has run: it set the document or recorded why it could not
LoadCompleted ==
    \/ ~IsNone(root)
    \/ \E i \in 1..Len(issues) : issues[i].kind \in LoadFailureKinds

\* C13 as claimed: no rule is evaluated before the load step completed, and
\* once a report was generated the analyzer is not taken back to the load
\* step or to a separate rule evaluation.
C13_Original ==
    /\ Len(evals) > 0 => LoadCompleted
    /\ reports >= 1 => lastOp \notin ({"load_xml"} \cup RuleOps)

\* C13 amended: the constructor runs the load step, so every analyzer that
\* exists has completed it before any rule is evaluated, and a loaded
\* document is never unset again; the order of the later operations is the
\* caller's: load_xml and the rule methods can be called after a report.
C13_LoadBeforeRules ==
    /\ pc = "new" => calls = 0 /\ evals = <<>> /\ issues = <<>>
    /\ pc = "ready" => LoadCompleted
    /\ Len(evals) > 0 => pc = "ready" /\ LoadCompleted
    /\ pc = "ready" => (IsNone(root) <=> file.outcome # "ok")

\* C13 witness: load_xml called on an analyzer that has already reported
C13_Witness ==
    /\ pc = "ready" /\ lastOp = "load_xml" /\ reports >= 1
    /\ ~IsNone(root) /\ Len(issues) > Len(prevIssues)

\* C17 as claimed: construction ends with an analyzer whatever the load
\* outcome, and generate_report on it returns a report that lists the
\* issues recorded so far.
C17_Claim ==
    /\ pc \in {"new", "ready"}
    /\ lastOp = "generate_report" =>
          ret.kind = "report" /\ ret.issues = issues /\ Len(evals) = 3

\* the issues the last operation appended
NewIssues == SubSeq(issues, Len(prevIssues) + 1, Len(issues))

IsExtensionIssue(x) == x.kind = "non_xml_file"

\* C18 as claimed: after construction on a path whose extension is not
\* .xml the extension issue is in the list once and its penalty is part of
\* what was subtracted, whatever the load outcome.
C18_Original ==
    (lastOp = "__init__" /\ pc = "ready" /\ ~file.xml_suffix) =>
        /\ Count(issues, IsExtensionIssue) = 1
        /\ totalPenalty >= NON_XML_FILE
        /\ readability_score <= InitialScore - NON_XML_FILE

\* C18 amended: for a path that exists with another extension than .xml the
\* load step records the extension issue first, once, and subtracts 10,
\* whether the file then loads, fails to parse or cannot be read; for a path
\* that does not exist it records the file-not-found issue alone and
\* subtracts 50, whatever the extension.
C18_ExtensionCheck ==
    (lastOp \in {"__init__", "load_xml"} /\ pc = "ready") =>
        /\ IsPrefix(prevIssues, issues)
        /\ readability_score = Max(0, prevScore - SumPenalty(NewIssues))
        /\ file.outcome \in {"ok", "parse_error", "permission", "other"} =>
              /\ Count(NewIssues, IsExtensionIssue)
                     = (IF file.xml_suffix THEN 0 ELSE 1)
              /\ ~file.xml_suffix => IsExtensionIssue(NewIssues[1])
              /\ Len(NewIssues) = (IF file.xml_suffix THEN 0 ELSE 1)
                                   + (IF file.outcome = "ok" THEN 0 ELSE 1)
        /\ file.outcome \in {"missing", "stat_denied"} =>
              NewIssues = <<Issue("file_not_found", <<>>)>>

\* C18 witness: construction on a malformed file with another extension:
\* warning, then parse error, 100 - 10 - 80
C18_Witness ==
    /\ lastOp = "__init__" /\ pc = "ready" /\ ~file.xml_suffix
    /\ file.outcome = "parse_error"
    /\ Len(issues) = 2 /\ IsExtensionIssue(issues[1])
    /\ readability_score = 10

\* C19 as claimed: whenever a deduction begins or an operation returns,
\* the deductions made before have been clamped: the score field is not
\* below 0.
C19_Original == low >= 0

\* C19 amended: the score is in 0..100 whenever an operation returns; the
\* load step clamps after each deduction, a rule method subtracts all its
\* penalties and clamps once at its end, so between two deductions of one
\* rule the field can be below 0; the value left is max(0, lowest value).
C19_ClampAtMethodEnd ==
    /\ readability_score \in 0..100
    /\ low <= prevScore
    /\ readability_score = Max(0, low)

\* C19 witness: detect_duplicate_config took the field below 0 and left 0
C19_Witness ==
    /\ lastOp = "detect_duplicate_config"
    /\ low < 0 /\ readability_score = 0 /\ prevScore > 0

IsNamingIssue(x) == x.kind = "sdk_special_chars"

\* C20 as claimed: check_config_norm on a document with one
\* ProjectRootManager component: if the component has a project-jdk-name
\* option with a value, exactly one special-characters issue iff the value
\* has a character outside word characters, whitespace and parentheses; if
\* the option is absent, or there is no such component, no naming issue.
C20_Claim ==
    (pc = "ready" /\ lastOp = "check_config_norm" /\ ~IsNone(root)
        /\ Len(Val(root).children) >= 1 /\ Len(RootManagers) <= 1) =>
        LET n == Count(ret.issues, IsNamingIssue)
            o == IF Len(RootManagers) = 1
                 THEN FindJdkOption(RootManagers[1]) ELSE None
        IN  IF IsNone(o) THEN n = 0
            ELSE IsNone(Val(o).value)
                 \/ n = (IF SPECIAL_CHAR_PATTERN_search(Val(Val(o).value))
                         THEN 1 ELSE 0)


\* an analyzer's fields after the operations ops run on it with nothing
\* else going on
RECURSIVE RunAlone(_, _)
RunAlone(f, ops) ==
    IF Len(ops) = 0 THEN Fields(None, <<>>, InitialScore)
    ELSE Step(RunAlone(f, SubSeq(ops, 1, Len(ops) - 1)), f, ops[Len(ops)])

\* C16: of two analyzers whose operations are interleaved in any order,
\* each has the document, the score and the issue list it would have had
\* alone; their issue lists are different objects, and the module's grade
\* table is what it was.
C16_InstancesIndependent ==
    /\ \A i \in Instances :
          an[i].pc = "ready" =>
              LET alone == RunAlone(an[i].file, an[i].ops)
              IN  /\ an[i].score = alone.score
                  /\ heap[an[i].ref] = alone.issues
                  /\ an[i].root = alone.root
    /\ (an[1].pc = "ready" /\ an[2].pc = "ready") => an[1].ref # an[2].ref
    /\ \A i \in Instances : an[i].pc = "ready" => an[i].ref # GradesAddress
    /\ heap[GradesAddress] = MAINTAINABILITY_GRADES

\* C16 witness: both analyzers constructed on different files and used
\* twice more, both with issues recorded, the lists different
C16_Witness ==
    /\ \A i \in Instances :
          /\ an[i].pc = "ready" /\ Len(an[i].ops) = 3
          /\ an[i].ops[3] = "generate_report"
          /\ Len(heap[an[i].ref]) >= 2
    /\ an[1].file # an[2].file
    /\ heap[an[1].ref] # heap[an[2].ref]


\* ------------------------------------------------------------ C21..C30
\* the document has one ProjectRootManager component, whose
\* project-jdk-name option declares the value v
DeclaresSdk(v) ==
    /\ ~IsNone(root)
    /\ Len(RootManagers) = 1
    /\ LET o == FindJdkOption(RootManagers[1]) IN
       ~IsNone(o) /\ Val(o).value = Some(v)

IsUnparseableIssue(x) == x.kind = "invalid_python_version_parse"

\* C21 as claimed: check_version_compatibility on a document whose SDK
\* value contains "Python" but no "Python <digits>.<digits>" returns exactly
\* one unparseable-version issue and lowers the score by 10.
C21_Claim ==
    (pc = "ready" /\ lastOp = "check_version_compatibility"
        /\ \E v \in JdkTexts :
              /\ DeclaresSdk(v)
              /\ ContainsPython(v)
              /\ IsNone(PYTHON_VERSION_PATTERN_search(v))) =>
        /\ Len(ret.issues) = 1
        /\ IsUnparseableIssue(ret.issues[1])
        /\ readability_score = Max(0, prevScore - INVALID_PYTHON_VERSION_PARSE)

IsMissingNameIssue(x) == x.kind = "empty_component_name"

\* positions of the top-level components without a name (no name
\* attribute, or an empty one, which the rule does not tell apart)
Unnamed == {i \in 1..Len(Comps) : ~Named(Comps[i])}

\* C22: detect_duplicate_config on a loaded document returns one
\* missing-name issue for every component without a name, 10 each, and one
\* duplicate issue for every later occurrence of a name among the named
\* components only: an entry without a name is never reported as a
\* duplicate and makes no other entry one.
C22_MissingNames ==
    (pc = "ready" /\ lastOp = "detect_duplicate_config" /\ ~IsNone(root)) =>
        /\ Count(ret.issues, IsMissingNameIssue) = Cardinality(Unnamed)
        /\ Count(ret.issues, IsDuplicateIssue) = Cardinality(LaterOccurrences)
        /\ Len(ret.issues) = Cardinality(Unnamed) + Cardinality(LaterOccurrences)
        /\ \A i \in 1..Len(ret.issues) :
              IsDuplicateIssue(ret.issues[i]) => ret.issues[i].arg[1] # ""
        /\ readability_score
               = Max(0, prevScore - EMPTY_COMPONENT_NAME * Cardinality(Unnamed)
                                  - DUPLICATE_COMPONENT * Cardinality(LaterOccurrences))

\* C22 witness: two entries without a name next to a named one: two
\* missing-name issues, no duplicate
C22_Witness ==
    /\ pc = "ready" /\ lastOp = "detect_duplicate_config" /\ ~IsNone(root)
    /\ Len(Comps) = 3 /\ Cardinality(Unnamed) = 2
    /\ IsNone(Comps[1].name) /\ IsNone(Comps[3].name)
    /\ Len(ret.issues) = 2 /\ readability_score = prevScore - 20

\* the grade of a score, by the inclusive thresholds
GradeOf(score) ==
    IF score >= 90 THEN "excellent"
    ELSE IF score >= 70 THEN "good"
    ELSE IF score >= 50 THEN "fair" ELSE "poor"

\* C23: the report of generate_report lists self.issues as it is after the
\* call, in list order; it shows the success line iff that list is empty;
\* its score is the score after the rules of the call and its grade is the
\* grade of that score.
C23_ReportContent ==
    lastOp = "generate_report" =>
        /\ ret.kind = "report"
        /\ ret.issues = issues
        /\ ret.sentinel <=> (Len(issues) = 0)
        /\ ret.score = readability_score
        /\ ret.score = Max(0, prevScore - SumPenalty(NewIssues))
        /\ ret.grade = GradeOf(ret.score)

\* C23 witness: a report whose rules took the score from the top grade to
\* the second
C23_Witness ==
    /\ lastOp = "generate_report" /\ ret.kind = "report"
    /\ prevScore >= 90 /\ ret.score < 90 /\ ret.grade = "good"
    /\ Len(ret.issues) >= 2 /\ ~ret.sentinel

\* C24: after construction and one generate_report the score is
\* max(0, 100 - the penalties of all issues in the list).
C24_SingleClamp ==
    OneReport => readability_score = Max(0, InitialScore - SumPenalty(issues))

\* C24 witness: the load step ended at 90 and the rules subtracted more
\* than that
C24_Witness ==
    /\ OneReport
    /\ prevScore = 90 /\ readability_score = 0
    /\ InitialScore - SumPenalty(issues) < 0


\* the value the SDK lookup hands to both rules that use it
SeenSdk == _get_project_jdk_value(root)

\* a version can be extracted from the value the lookup returns
VersionExtractable ==
    /\ pc = "ready"
    /\ StrTruth(SeenSdk)
    /\ ~IsNone(PYTHON_VERSION_PATTERN_search(Val(SeenSdk)))

\* C25: whenever a version can be extracted from the SDK value the rules
\* get, that value has a special character: check_config_norm records the
\* special-characters issue for it, and a report on such a document ends at
\* 85 or less.
C25_VersionImpliesSpecialChar ==
    VersionExtractable =>
        /\ SPECIAL_CHAR_PATTERN_search(Val(SeenSdk))
        /\ lastOp = "check_config_norm" =>
              /\ Count(ret.issues, IsNamingIssue) = 1
              /\ \E i \in 1..Len(ret.issues) :
                    IsNamingIssue(ret.issues[i]) /\ ret.issues[i].arg = Val(SeenSdk)
        /\ lastOp = "generate_report" =>
              /\ Count(evals[1].issues, IsNamingIssue) = 1
              /\ readability_score <= MaxScore - SDK_SPECIAL_CHARS

\* C25 witness: one report on a .xml file whose SDK value is a supported
\* version: the special-characters issue is the only one, 85
C25_Witness ==
    /\ OneReport /\ VersionExtractable
    /\ evals[3].issues = <<>>
    /\ Len(issues) = 1 /\ IsNamingIssue(issues[1])
    /\ readability_score = 85

IsFormatIssue(x) == x.kind = "invalid_version_format"

\* C26 as claimed: on every document that was parsed, with or without
\* child elements of the root, check_config_norm looks at the root's
\* version attribute: version "3.8.1" yields the format issue and costs 10.
C26_Claim ==
    (pc = "ready" /\ lastOp = "check_config_norm" /\ file.outcome = "ok") =>
        /\ ~IsNone(root)
        /\ Val(root).version = Some(<<"3", ".", "8", ".", "1">>) =>
              /\ Count(ret.issues, IsFormatIssue) = 1
              /\ readability_score <= prevScore - INVALID_VERSION_FORMAT

IsLoadFailureIssue(x) == x.kind \in LoadFailureKinds

\* C27: right after construction the list holds at most one extension
\* warning, first, and at most one load-failure issue, and nothing else;
\* the document is set iff there is no load-failure issue; the score is
\* 100 minus the penalties of these issues.
C27_AfterConstruction ==
    (lastOp = "__init__" /\ pc = "ready") =>
        /\ Count(issues, IsExtensionIssue) <= 1
        /\ Count(issues, IsLoadFailureIssue) <= 1
        /\ Len(issues) = Count(issues, IsExtensionIssue)
                         + Count(issues, IsLoadFailureIssue)
        /\ Len(issues) = 2 => IsExtensionIssue(issues[1])
        /\ ~IsNone(root) <=> (Count(issues, IsLoadFailureIssue) = 0)
        /\ readability_score = InitialScore - SumPenalty(issues)

\* C27 witness: a file with another extension that could not be read:
\* warning and load failure, 100 - 10 - 30
C27_Witness ==
    /\ lastOp = "__init__" /\ pc = "ready"
    /\ Len(issues) = 2 /\ IsNone(root)
    /\ readability_score = 60

\* positions of the ProjectRootManager components whose project-jdk-name
\* option the lookup accepts (an option element with a child element)
Found ==
    {i \in 1..Len(RootManagers) :
        LET o == FindJdkOption(RootManagers[i])
        IN  ~IsNone(o) /\ Len(Val(o).children) > 0}

FirstFound == CHOOSE i \in Found : \A j \in Found : i <= j

IsTooLowIssue(x) == x.kind = "python_version_too_low"

\* C29: one evaluation of check_version_compatibility returns at most one
\* issue and costs at most 10; the issue, if any, is about the value of the
\* first option the lookup accepts, whatever other ProjectRootManager
\* components follow: either no version can be extracted from it, or the
\* version extracted is too low.
C29_AtMostOneIssue ==
    (pc = "ready" /\ lastOp = "check_version_compatibility") =>
        /\ Len(ret.issues) <= 1
        /\ readability_score = Max(0, prevScore - 10 * Len(ret.issues))
        /\ Len(ret.issues) = 1 =>
              /\ Found # {}
              /\ LET v == Val(FindJdkOption(RootManagers[FirstFound])).value
                     m == PYTHON_VERSION_PATTERN_search(Val(v))
                 IN  /\ ~IsNone(v)
                     /\ IsUnparseableIssue(ret.issues[1]) =>
                           IsNone(m) /\ ret.issues[1].arg = Val(v)
                     /\ IsTooLowIssue(ret.issues[1]) =>
                           ~IsNone(m) /\ ret.issues[1].arg = Val(m)
                     /\ IsUnparseableIssue(ret.issues[1])
                           \/ IsTooLowIssue(ret.issues[1])

\* C29 witness: three ProjectRootManager components, the first with a
\* version that is too low, the second with one that cannot be extracted:
\* one issue, about the first
C29_Witness ==
    /\ pc = "ready" /\ lastOp = "check_version_compatibility"
    /\ ~IsNone(root) /\ Len(RootManagers) = 3 /\ Cardinality(Found) = 2
    /\ Len(ret.issues) = 1 /\ IsTooLowIssue(ret.issues[1])
    /\ readability_score = prevScore - 10


\* the first definition gives the score, the grade and the number of issues
\* of the report just made
SameResult(old) ==
    /\ old.score = readability_score
    /\ old.grade = ret.grade
    /\ Len(old.issues) = Len(issues)

\* the inputs on which the two definitions part
MissingOtherSuffix == file.outcome = "missing" /\ ~file.xml_suffix
StatRefused == file.outcome = "stat_denied"
UnparseableSeen ==
    /\ file.outcome = "ok"
    /\ StrTruth(SeenSdk)
    /\ ContainsPython(Val(SeenSdk))
    /\ IsNone(PYTHON_VERSION_PATTERN_search(Val(SeenSdk)))
SeveralAccepted == file.outcome = "ok" /\ Cardinality(Found) > 1

RECURSIVE KeptRecords(_, _)
KeptRecords(log, first) ==
    IF Len(log) = 0 THEN <<>>
    ELSE PageRecords(first, Head(log).kept) \o KeptRecords(Tail(log), first + 1)

\* the requests are for pages 1, 2, ... in order, at most MAX_PAGES of
\* them, none after an empty page or a failure, and the list holds all
\* records of every page that arrived before
FetchPagesInOrder ==
    /\ Len(fetch.requests) <= MAX_PAGES
    /\ \A i \in 1..Len(fetch.requests) : fetch.requests[i] = i
    /\ Len(fetch.log) = Len(fetch.requests)
    /\ \A i \in 1..(Len(fetch.log) - 1) :
          fetch.log[i].outcome = "data" /\ fetch.log[i].kept = fetch.log[i].size
    /\ fetch.commits = KeptRecords(fetch.log, 1)
    /\ fetch.pc = "done" =>
          \/ fetch.log[Len(fetch.log)].outcome \in {"empty", "failed", "bad_record"}
          \/ Len(fetch.requests) = MAX_PAGES

\* every call made returns: no call of the loop is left waiting
FetchReturns == fetch.pc # "blocked"

\* C30 as claimed: the fetch functions request pages 1, 2, ... in order, at
\* most MAX_PAGES of them, stop at the first empty page or failed request,
\* keep the records of the pages before, and always return.
C30_Claim == FetchPagesInOrder /\ FetchReturns

====
